---- MODULE Spec2Model ----
(***************************************************************************)
(* Intrusive reference counting of Core::ReferenceCounted objects through  *)
(* Core::Ref<T> smart pointers (ReferenceCounting.hh).                     *)
(*                                                                         *)
(* The program is single-threaded: every member function of Ref runs to    *)
(* completion before the next one starts, so each of them is one action.   *)
(* Inside an action the statements are composed in source order over a     *)
(* memory record  m = [obj, own, rc, del, fail]:                           *)
(*    obj[h]  the value of handle h's member object_                       *)
(*    own[h]  the object handle h is a data member of (NullPtr: of none)   *)
(*    rc[t]   the member referenceCount_ of object t (a u32)               *)
(*    del[t]  how many times "delete this" has run on object t             *)
(*    fail    the contract violation that aborted the program, if any      *)
(* Handles are followed one by one in the slots Handles; crowd[t] is the   *)
(* number of further live Ref objects whose object_ is t, which are only   *)
(* counted (it is 0 except where counters near 2^32 are studied).          *)
(***************************************************************************)
EXTENDS Integers, FiniteSets, Sequences, TLC

\* ------------------------------------------------------------------ bounds
NumHandles == 3
NumObjects == 2
\* Handles that are followed one by one where the others are only counted.
NumWideHandles == 2
\* How far around 2^32 the number of counted handles ranges.
Margin == 2

Handles == 1..NumHandles
Objects == 1..NumObjects

\* --------------------------------------------------------------- addresses
\* The address of the function-local static sentinel_.
Sentinel == 0
\* The null raw pointer (a client may hand it to Ref(Object*)).
NullPtr == -1
\* object_ of a Ref that is not constructed (before ctor / after dtor).
NoRef == -2

Targets == {Sentinel} \cup Objects

\* --------------------------------------------------------------------- u32
\* referenceCount_ is a u32.  A count is kept as two 16-bit limbs <<hi, lo>>
\* so that ++ and -- wrap exactly at 2^32.
Half == 65536

U32(n) == <<(n \div Half) % Half, n % Half>>

Zero == U32(0)

\* Variant: ++c that stays at 2^32 - 1 instead of wrapping to 0.
Inc_saturating(c) ==
    IF c = <<Half - 1, Half - 1>> THEN c
    ELSE IF c[2] = Half - 1 THEN <<c[1] + 1, 0>> ELSE <<c[1], c[2] + 1>>

\* ++c on a u32
Inc(c) == IF c[2] = Half - 1 THEN <<(c[1] + 1) % Half, 0>> ELSE <<c[1], c[2] + 1>>

\* --c on a u32
Dec(c) == IF c[2] = 0 THEN <<(c[1] + Half - 1) % Half, Half - 1>> ELSE <<c[1], c[2] - 1>>

\* ------------------------------------------------- numbers of handles
\* A number of handles may pass 2^32: it is kept as <<hi, lo>> with lo a
\* 16-bit limb and hi unbounded, so that <<Half, 0>> is 2^32.
TwoTo32 == <<Half, 0>>

Plus(c, n) == <<c[1] + ((c[2] + n) \div Half), (c[2] + n) % Half>>

Minus1(c) == IF c[2] = 0 THEN <<c[1] - 1, Half - 1>> ELSE <<c[1], c[2] - 1>>

Less(a, b) == a[1] < b[1] \/ (a[1] = b[1] /\ a[2] < b[2])

\* What a u32 keeps of a number.
Mod32(c) == <<c[1] % Half, c[2]>>

VARIABLES object_, memberOf, referenceCount_, allocated, deleted, failure,
          lastOp, crowd

vars == <<object_, memberOf, referenceCount_, allocated, deleted, failure,
          lastOp, crowd>>

\* The memory the member functions work on.
Mem == [obj |-> object_, own |-> memberOf, rc |-> referenceCount_,
        del |-> deleted, fail |-> failure]

\* "delete this" runs the destructor of T, which runs ~Ref() on the handles
\* that are data members of the object, which may free further objects.
RECURSIVE free(_, _), RefDtor(_, _), destroyMembers(_, _)

\* ---------------------------------------------------------- Assertions.hh
\* require_(c): a failed precondition aborts the program.
require_(m, c) == IF c THEN m ELSE [m EXCEPT !.fail = "PreconditionViolation"]

\* verify_(c): a failed invariant check aborts the program.
verify_(m, c) == IF c THEN m ELSE [m EXCEPT !.fail = "InvariantViolation"]

\* -------------------------------------------------------- ReferenceCounted
isSentinel(object) == object = Sentinel

isNotSentinel(object) == object # Sentinel

\* u32 refCount() const
refCount(m, t) == m.rc[t]

\* ReferenceCounted(const ReferenceCounted&) : referenceCount_(0)
\* o is the object under construction, src the one it is copied from.
RCCopy(m, o, src) == [m EXCEPT !.rc[o] = Zero]

\* operator= that copies the counter with the rest of the object (what the
\* compiler-generated operator= would do)
RCAssign_copiesCounter(m, dst, src) == [m EXCEPT !.rc[dst] = m.rc[src]]

\* ReferenceCounted &operator= (const ReferenceCounted&) { return *this; }
RCAssign(m, dst, src) == m

\* free() without its two checks
free_unchecked(m, t) == [m EXCEPT !.del[t] = @ + 1]

\* void free() const.  "delete this" is counted in del; the counter of a
\* deleted object is left as it was (no operation of the program reads it:
\* C3_NoLiveHandleToDestroyedObject).
\* Variant: the destructor of the object leaves its member handles alone.
destroyMembers_none(m, t) == m

free(m, t) ==
    LET m1 == require_(m, m.rc[t] = Zero)
        m2 == IF m1.fail = "none" THEN verify_(m1, ~isSentinel(t)) ELSE m1
    IN  IF m2.fail = "none"
        THEN destroyMembers([m2 EXCEPT !.del[t] = @ + 1], t)
        ELSE m2

\* ~T() inside "delete this": the handles that are members of t are
\* destroyed, the last declared first.
destroyMembers(m, t) ==
    LET hs == {h \in DOMAIN m.obj : m.own[h] = t /\ m.obj[h] \in Targets}
    IN  IF hs = {} \/ m.fail # "none"
        THEN m
        ELSE LET h == CHOOSE x \in hs : \A y \in hs : y <= x
             IN  destroyMembers(RefDtor(m, h), t)

\* --------------------------------------------------------------------- Ref
\* Object* _get() const
_get(m, h) == m.obj[h]

\* Ref() that forgets ++object_->referenceCount_
RefDefault_noIncrement(m, h) ==
    [m EXCEPT !.obj[h] = Sentinel]

\* Ref() : object_(sentinel())
RefDefault(m, h) ==
    [m EXCEPT !.obj[h] = Sentinel, !.rc[Sentinel] = Inc(@)]

\* Ref(Object*) that forgets ++object_->referenceCount_
RefFromObject_noIncrement(m, h, o) ==
    require_([m EXCEPT !.obj[h] = o], o # NullPtr)

\* Ref(Object*) that takes a null pointer for "no object" instead of failing
RefFromObject_nullIsVoid(m, h, o) ==
    LET t == IF o = NullPtr THEN Sentinel ELSE o
    IN  [m EXCEPT !.obj[h] = t, !.rc[t] = Inc(@)]

\* explicit Ref(Object *o) : object_(o)
RefFromObject(m, h, o) ==
    LET m1 == [m EXCEPT !.obj[h] = o]
        m2 == require_(m1, o # NullPtr)
    IN  IF m2.fail = "none" THEN [m2 EXCEPT !.rc[o] = Inc(@)] ELSE m2

\* the copy constructor that forgets ++object_->referenceCount_ (what the
\* compiler-generated copy constructor would do)
RefCopy_noIncrement(m, h, r) ==
    [m EXCEPT !.obj[h] = m.obj[r]]

\* Ref(const Ref &r) : object_(r.object_)
RefCopy(m, h, r) ==
    LET o == m.obj[r]
    IN  [m EXCEPT !.obj[h] = o, !.rc[o] = Inc(@)]

\* the template copy constructor that forgets the increment
RefConvert_noIncrement(m, h, r) ==
    [m EXCEPT !.obj[h] = _get(m, r)]

\* template<class S> Ref(const Ref<S> &r) : object_(r._get())
RefConvert(m, h, r) ==
    LET o == _get(m, r)
    IN  [m EXCEPT !.obj[h] = o, !.rc[o] = Inc(@)]

\* ~Ref() that decrements and never frees
RefDtor_noFree(m, h) ==
    [m EXCEPT !.rc[m.obj[h]] = Dec(@), !.obj[h] = NoRef, !.own[h] = NullPtr]

\* Variant: ~Ref() that frees the target whatever its counter has become.
RefDtor_freeAlways(m, h) ==
    LET o  == m.obj[h]
        m1 == [m EXCEPT !.rc[o] = Dec(@)]
        m2 == IF isNotSentinel(o) THEN free(m1, o) ELSE m1
    IN  IF m2.fail = "none"
        THEN [m2 EXCEPT !.obj[h] = NoRef, !.own[h] = NullPtr]
        ELSE m2

\* ~Ref(); the storage of the handle ends with it (NoRef).
RefDtor(m, h) ==
    LET o  == m.obj[h]
        m1 == [m EXCEPT !.rc[o] = Dec(@)]
        m2 == IF m1.rc[o] = Zero
              THEN LET v == verify_(m1, isNotSentinel(o))
                   IN  IF v.fail = "none" THEN free(v, o) ELSE v
              ELSE m1
    IN  IF m2.fail = "none"
        THEN [m2 EXCEPT !.obj[h] = NoRef, !.own[h] = NullPtr]
        ELSE m2

\* The temporary Ref<T>(o) inside ref(): a handle that is no variable of
\* the client.
Temp == 0

\* inline Ref<T> ref(T *o) { return Ref<T>(o); }
\* The returned handle h is the temporary itself when the copy is elided;
\* otherwise it is copy-constructed from the temporary, which is then
\* destroyed.
ref(m, h, o, elide) ==
    IF elide
    THEN RefFromObject(m, h, o)
    ELSE LET mt == [m EXCEPT !.obj = (Temp :> NoRef) @@ @,
                             !.own = (Temp :> NullPtr) @@ @]
             m1 == RefFromObject(mt, Temp, o)
             m2 == IF m1.fail = "none" THEN RefCopy(m1, h, Temp) ELSE m1
             m3 == IF m2.fail = "none" THEN RefDtor(m2, Temp) ELSE m2
         IN  [m3 EXCEPT !.obj = [x \in Handles |-> m3.obj[x]],
                        !.own = [x \in Handles |-> m3.own[x]]]

\* set() that releases the old target before it acquires the new one
set_decrementFirst(m, h, o) ==
    LET old == m.obj[h]
        m1  == [m EXCEPT !.rc[old] = Dec(@)]
        m2  == IF m1.rc[old] = Zero
               THEN LET v == verify_(m1, isNotSentinel(old))
                    IN  IF v.fail = "none" THEN free(v, old) ELSE v
               ELSE m1
    IN  IF m2.fail = "none" THEN [m2 EXCEPT !.obj[h] = o, !.rc[o] = Inc(@)] ELSE m2

\* set() that never releases the old target
set_noRelease(m, h, o) ==
    [m EXCEPT !.obj[h] = o, !.rc[o] = Inc(@)]

\* set() statement by statement, with the decrement and the release of the
\* old target before the increment of the new one
setSteps_decrementFirst(m, h, o) ==
    LET old == m.obj[h]
        m1  == [m EXCEPT !.rc[old] = Dec(@)]
        m2  == IF m1.rc[old] = Zero
               THEN LET v == verify_(m1, isNotSentinel(old))
                    IN  IF v.fail = "none" THEN free(v, old) ELSE v
               ELSE m1
        m3  == IF m2.fail = "none" THEN [m2 EXCEPT !.obj[h] = o, !.rc[o] = Inc(@)] ELSE m2
    IN  <<m1, m2, m3>>

\* void set(Object *o), statement by statement: the memory after
\*   [1]  ++(object_ = o)->referenceCount_;
\*   [2]  --old->referenceCount_          (the condition of the if)
\*   [3]  verify_(isNotSentinel(old)); old->free();   (the body, if taken)
setSteps(m, h, o) ==
    LET old == m.obj[h]
        m1  == [m EXCEPT !.obj[h] = o, !.rc[o] = Inc(@)]
        m2  == [m1 EXCEPT !.rc[old] = Dec(@)]
        m3  == IF m2.rc[old] = Zero
               THEN LET v == verify_(m2, isNotSentinel(old))
                    IN  IF v.fail = "none" THEN free(v, old) ELSE v
               ELSE m2
    IN  <<m1, m2, m3>>

\* void set(Object *o)
set(m, h, o) == setSteps(m, h, o)[3]

\* operator= written as a swap of the two pointers
opAssign_swap(m, h, rhs) ==
    [m EXCEPT !.obj[h] = m.obj[rhs], !.obj[rhs] = m.obj[h]]

\* Ref &operator=(const Ref &rhs)
opAssign(m, h, rhs) == set(m, h, m.obj[rhs])

\* the converting operator= that returns *this without calling set()
opAssignS_noSet(m, h, rhs) == m

\* template<class S> Ref &operator=(const Ref<S> &rhs)
opAssignS(m, h, rhs) == set(m, h, _get(m, rhs))

\* reset() that rebinds to the sentinel without counting the handle on it
reset_noSentinelIncrement(m, h) ==
    LET o == m.obj[h]
    IN  IF isNotSentinel(o)
        THEN LET m1 == [m EXCEPT !.rc[o] = Dec(@)]
                 m2 == IF m1.rc[o] = Zero THEN free(m1, o) ELSE m1
             IN  IF m2.fail = "none" THEN [m2 EXCEPT !.obj[h] = Sentinel] ELSE m2
        ELSE m

\* reset() whose rebinding is outside the if: a Void handle is counted again
reset_rebindOutsideIf(m, h) ==
    LET o  == m.obj[h]
        m1 == IF isNotSentinel(o) THEN [m EXCEPT !.rc[o] = Dec(@)] ELSE m
        m2 == IF isNotSentinel(o) /\ m1.rc[o] = Zero THEN free(m1, o) ELSE m1
    IN  IF m2.fail = "none"
        THEN [m2 EXCEPT !.obj[h] = Sentinel, !.rc[Sentinel] = Inc(@)]
        ELSE m2

\* void reset()
reset(m, h) ==
    LET o == m.obj[h]
    IN  IF isNotSentinel(o)
        THEN LET m1 == [m EXCEPT !.rc[o] = Dec(@)]
                 m2 == IF m1.rc[o] = Zero THEN free(m1, o) ELSE m1
             IN  IF m2.fail = "none"
                 THEN [m2 EXCEPT !.obj[h] = Sentinel, !.rc[Sentinel] = Inc(@)]
                 ELSE m2
        ELSE m

\* operator== that compares object_ with itself instead of with r.object_
opEq_selfCompare(m, h, r) == m.obj[h] = m.obj[h]

\* bool operator==(const Ref &r) const
opEq(m, h, r) == m.obj[h] = m.obj[r]

\* template<class S> bool operator==(const Ref<S> &r) const
opEqS(m, h, r) == m.obj[h] = _get(m, r)

\* bool operator!=(const Ref &r) const
opNe(m, h, r) == m.obj[h] # m.obj[r]

\* template<class S> bool operator!=(const Ref<S> &r) const
opNeS(m, h, r) == m.obj[h] # _get(m, r)

\* operator* without its require_
opDeref_unchecked(m, h) == [mem |-> m, ret |-> m.obj[h]]

\* operator bool() const
opBool(m, h) == isNotSentinel(m.obj[h])

\* bool operator!() const
opNot(m, h) == isSentinel(m.obj[h])

\* Object* get() const: the raw pointer, null for a Void handle
get(m, h) == IF isNotSentinel(m.obj[h]) THEN m.obj[h] ELSE NullPtr

\* Object &operator* () const: the memory afterwards and the object returned
\* (NoRef when the call did not return).
opDeref(m, h) ==
    LET m1 == require_(m, isNotSentinel(m.obj[h]))
    IN  [mem |-> m1, ret |-> IF m1.fail = "none" THEN m.obj[h] ELSE NoRef]

\* Object *operator-> () const
opArrow(m, h) ==
    LET m1 == require_(m, isNotSentinel(m.obj[h]))
    IN  [mem |-> m1, ret |-> IF m1.fail = "none" THEN m.obj[h] ELSE NoRef]

\* ------------------------------------------------------------ the program
\* A handle exists from the end of its constructor to its destructor.
Live(h) == object_[h] \in Targets

\* The live handles whose object_ is t.
BoundTo(t) == {h \in Handles : object_[h] = t}

\* An object exists from "new T" to "delete this".
Alive(o) == o \in allocated /\ deleted[o] = 0

Running == failure = "none"

\* The objects "delete this" ran on while m was computed.
Freed(m) == {t \in Targets : m.del[t] > deleted[t]}

\* The memory an operation leaves becomes the program's.
Store(m, op, h, arg, ret) ==
    /\ object_' = m.obj
    /\ memberOf' = m.own
    /\ referenceCount_' = m.rc
    /\ deleted' = m.del
    /\ failure' = m.fail
    /\ lastOp' = [op |-> op, h |-> h, arg |-> arg, ret |-> ret, freed |-> Freed(m)]

\* An operation on the handles that are followed one by one has run.
Commit(m, op, h, arg, ret) ==
    /\ Store(m, op, h, arg, ret)
    /\ crowd' = crowd

\* No handle and no object yet.  The function-local static sentinel_(1) is
\* constructed on the first call of sentinel(), which is before any counter
\* of it is read: it is taken as constructed from the start.
Init ==
    /\ object_ = [h \in Handles |-> NoRef]
    /\ memberOf = [h \in Handles |-> NullPtr]
    /\ referenceCount_ = [t \in Targets |-> IF t = Sentinel THEN U32(1) ELSE Zero]
    /\ allocated = {}
    /\ deleted = [t \in Targets |-> 0]
    /\ failure = "none"
    /\ lastOp = [op |-> "init", h |-> 0, arg |-> NoRef, ret |-> NoRef, freed |-> {}]
    /\ crowd = [t \in Targets |-> Zero]

\* new T: ReferenceCounted() : referenceCount_(0).  Addresses are handed out
\* in order and never reused.
NewObject ==
    /\ Running
    /\ Cardinality(allocated) < NumObjects
    /\ LET o == Cardinality(allocated) + 1
       IN  /\ allocated' = allocated \cup {o}
           /\ Commit([Mem EXCEPT !.rc[o] = Zero], "new", 0, o, o)

\* new T(*src): the copy gets the next address.  arg: src, ret: the copy.
CopyObject(src) ==
    /\ Running
    /\ Alive(src)
    /\ Cardinality(allocated) < NumObjects
    /\ LET o == Cardinality(allocated) + 1
       IN  /\ allocated' = allocated \cup {o}
           /\ Commit(RCCopy(Mem, o, src), "T(const T&)", 0, src, o)

\* *dst = *src.  arg: src, ret: dst.
AssignObject(dst, src) ==
    /\ Running
    /\ Alive(dst) /\ Alive(src)
    /\ Commit(RCAssign(Mem, dst, src), "T::operator=", 0, src, dst)
    /\ UNCHANGED allocated

DefaultConstruct(h) ==
    /\ Running /\ ~Live(h)
    /\ Commit(RefDefault(Mem, h), "Ref()", h, NoRef, NoRef)
    /\ UNCHANGED allocated

\* The client hands in a null pointer or a pointer to an object that exists.
ConstructFromObject(h, o) ==
    /\ Running /\ ~Live(h)
    /\ o = NullPtr \/ (o \in Objects /\ Alive(o))
    /\ Commit(RefFromObject(Mem, h, o), "Ref(Object*)", h, o, NoRef)
    /\ UNCHANGED allocated

\* ref(o), with and without copy elision.
RefFactory(h, o, elide) ==
    /\ Running /\ ~Live(h)
    /\ o = NullPtr \/ (o \in Objects /\ Alive(o))
    /\ Commit(ref(Mem, h, o, elide), "ref", h, o, NoRef)
    /\ UNCHANGED allocated

\* Ref<T> h(r.get()): a second handle made from the raw pointer of handle r.
ConstructFromGet(h, r) ==
    /\ Running /\ ~Live(h) /\ Live(r)
    /\ Commit(RefFromObject(Mem, h, get(Mem, r)), "Ref(get)", h, get(Mem, r), NoRef)
    /\ UNCHANGED allocated

CopyConstruct(h, r) ==
    /\ Running /\ ~Live(h) /\ Live(r)
    /\ Commit(RefCopy(Mem, h, r), "Ref(Ref)", h, r, NoRef)
    /\ UNCHANGED allocated

ConvertingCopyConstruct(h, r) ==
    /\ Running /\ ~Live(h) /\ Live(r)
    /\ Commit(RefConvert(Mem, h, r), "Ref(Ref<S>)", h, r, NoRef)
    /\ UNCHANGED allocated

\* A handle that is a variable of the client goes out of scope (a member
\* handle ends with its object).  arg: the target the handle had.
Destroy(h) ==
    /\ Running /\ Live(h) /\ memberOf[h] = NullPtr
    /\ Commit(RefDtor(Mem, h), "~Ref", h, object_[h], NoRef)
    /\ UNCHANGED allocated

Assign(h, rhs) ==
    /\ Running /\ Live(h) /\ Live(rhs)
    /\ Commit(opAssign(Mem, h, rhs), "operator=", h, rhs, NoRef)
    /\ UNCHANGED allocated

ConvertingAssign(h, rhs) ==
    /\ Running /\ Live(h) /\ Live(rhs)
    /\ Commit(opAssignS(Mem, h, rhs), "operator=<S>", h, rhs, NoRef)
    /\ UNCHANGED allocated

\* arg: the target the handle had.
Reset(h) ==
    /\ Running /\ Live(h)
    /\ Commit(reset(Mem, h), "reset", h, object_[h], NoRef)
    /\ UNCHANGED allocated

Dereference(h) ==
    /\ Running /\ Live(h)
    /\ LET r == opDeref(Mem, h)
       IN  Commit(r.mem, "operator*", h, NoRef, r.ret)
    /\ UNCHANGED allocated

MemberAccess(h) ==
    /\ Running /\ Live(h)
    /\ LET r == opArrow(Mem, h)
       IN  Commit(r.mem, "operator->", h, NoRef, r.ret)
    /\ UNCHANGED allocated

Next ==
    \/ NewObject
    \/ \E src \in Objects : CopyObject(src)
    \/ \E dst \in Objects : \E src \in Objects : AssignObject(dst, src)
    \/ \E h \in Handles : DefaultConstruct(h)
    \/ \E h \in Handles : \E o \in Objects \cup {NullPtr} : ConstructFromObject(h, o)
    \/ \E h \in Handles : \E o \in Objects \cup {NullPtr} : \E elide \in BOOLEAN :
          RefFactory(h, o, elide)
    \/ \E h \in Handles : \E r \in Handles : ConstructFromGet(h, r)
    \/ \E h \in Handles : \E r \in Handles : CopyConstruct(h, r)
    \/ \E h \in Handles : \E r \in Handles : ConvertingCopyConstruct(h, r)
    \/ \E h \in Handles : Destroy(h)
    \/ \E h \in Handles : \E r \in Handles : Assign(h, r)
    \/ \E h \in Handles : \E r \in Handles : ConvertingAssign(h, r)
    \/ \E h \in Handles : Reset(h)
    \/ \E h \in Handles : Dereference(h)
    \/ \E h \in Handles : MemberAccess(h)

Spec == Init /\ [][Next]_vars

\* ------------------------------------------------- clients that call free()
\* p->free() on a raw pointer p the client holds: an object that exists, or
\* the sentinel (h._get() of a Void handle).
ClientFree(t) ==
    /\ Running
    /\ t = Sentinel \/ (t \in Objects /\ Alive(t))
    /\ Commit(free(Mem, t), "free", 0, t, NoRef)
    /\ UNCHANGED allocated

NextFree ==
    \/ Next
    \/ \E t \in Targets : ClientFree(t)

SpecFree == Init /\ [][NextFree]_vars

\* --------------------------------------------- objects that hold a handle
\* struct Node : ReferenceCounted { Ref<Node> next; };  new Node constructs
\* the object (counter 0) and its member handle next (Void) in slot h.
\* arg, ret: the node.
NewNode(h) ==
    /\ Running /\ ~Live(h)
    /\ Cardinality(allocated) < NumObjects
    /\ LET o  == Cardinality(allocated) + 1
           m1 == [Mem EXCEPT !.rc[o] = Zero, !.own[h] = o]
       IN  /\ allocated' = allocated \cup {o}
           /\ Commit(RefDefault(m1, h), "new Node", h, o, o)

\* The objects the member handles of the objects in S are bound to.
Succ(S) ==
    {object_[h] : h \in {g \in Handles : memberOf[g] \in S /\ object_[g] \in Objects}}

RECURSIVE ReachN(_, _)
\* The objects reached from S along at most n member handles.
ReachN(S, n) == IF n = 0 THEN {} ELSE Succ(S) \cup ReachN(Succ(S), n - 1)

\* The client builds no reference cycle (cycles are never released and are
\* outside what the handles promise).
Acyclic == \A o \in Objects : o \notin ReachN({o}, NumObjects)

\* The operations that construct, rebind and release handles, on client
\* variables and on member handles alike.
NextNodes ==
    \/ \E h \in Handles : NewNode(h)
    \/ \E h \in Handles : DefaultConstruct(h)
    \/ \E h \in Handles : \E o \in Objects : ConstructFromObject(h, o)
    \/ \E h \in Handles : \E r \in Handles : CopyConstruct(h, r)
    \/ \E h \in Handles : Destroy(h)
    \/ \E h \in Handles : \E r \in Handles :
          Assign(h, r) /\ (memberOf[h] = NullPtr \/ Acyclic')
    \/ \E h \in Handles : Reset(h)

SpecNodes == Init /\ [][NextNodes]_vars

\* ------------------------------------------------- counters close to 2^32
WideHandles == 1..NumWideHandles

\* The number of live handles whose object_ is t.
BoundCount(t) == Plus(crowd[t], Cardinality(BoundTo(t)))

\* A live handle has the address of a deleted object: whatever it does next
\* reads and writes freed memory.
Dangling == \E o \in Objects : deleted[o] > 0 /\ BoundCount(o) # Zero

\* The counted handles of a target range from Bottom to Top.
Bottom == <<Half - 1, Half - Margin>>

Top == <<Half, Margin>>

\* The memory with one more handle, Temp, whose object_ is v.
WithTemp(m, v) ==
    [m EXCEPT !.obj = (Temp :> v) @@ @, !.own = (Temp :> NullPtr) @@ @]

WithoutTemp(m) ==
    [m EXCEPT !.obj = [x \in Handles |-> m.obj[x]],
              !.own = [x \in Handles |-> m.own[x]]]

\* The program has constructed 2^32 - Margin handles on one target w, the
\* sentinel (Ref()) or the first object (Ref(Object*)), each construction
\* having incremented the u32 once.
InitWide ==
    \E w \in {Sentinel, 1} :
        /\ object_ = [h \in Handles |-> NoRef]
        /\ memberOf = [h \in Handles |-> NullPtr]
        /\ crowd = [t \in Targets |-> IF t = w THEN Bottom ELSE Zero]
        /\ referenceCount_ =
              [t \in Targets |->
                  Mod32(Plus(crowd[t], IF t = Sentinel THEN 1 ELSE 0))]
        /\ allocated = IF w = Sentinel THEN {} ELSE {w}
        /\ deleted = [t \in Targets |-> 0]
        /\ failure = "none"
        /\ lastOp = [op |-> "init", h |-> 0, arg |-> NoRef, ret |-> NoRef, freed |-> {}]

\* One more counted handle on t: Ref() for the sentinel, Ref(Object*) for an
\* object.
CrowdConstruct(t) ==
    /\ Running /\ ~Dangling
    /\ crowd[t] # Zero /\ Less(crowd[t], Top)
    /\ isSentinel(t) \/ Alive(t)
    /\ LET mt == WithTemp(Mem, NoRef)
           m1 == IF isSentinel(t) THEN RefDefault(mt, Temp)
                                  ELSE RefFromObject(mt, Temp, t)
       IN  /\ Store(WithoutTemp(m1), "Ref (counted)", Temp, t, NoRef)
           /\ crowd' = [crowd EXCEPT ![t] = Plus(@, 1)]
    /\ UNCHANGED allocated

\* ~Ref() of one of the counted handles of t.
CrowdDestroy(t) ==
    /\ Running /\ ~Dangling
    /\ Less(Bottom, crowd[t])
    /\ LET m1 == RefDtor(WithTemp(Mem, t), Temp)
       IN  /\ Store(WithoutTemp(m1), "~Ref (counted)", Temp, t, NoRef)
           /\ crowd' = IF m1.fail = "none" THEN [crowd EXCEPT ![t] = Minus1(@)]
                                            ELSE crowd
    /\ UNCHANGED allocated

\* Any operation of a handle whose object has been deleted: the memory that
\* held the counter may hold anything, and the checks may or may not fail.
UseAfterFree(o) ==
    /\ Running /\ o \in Objects
    /\ deleted[o] > 0 /\ BoundCount(o) # Zero
    /\ \E c \in {Zero, U32(1), Dec(Zero)} :
          referenceCount_' = [referenceCount_ EXCEPT ![o] = c]
    /\ failure' \in {"none", "PreconditionViolation", "InvariantViolation"}
    /\ lastOp' = [op |-> "use after free", h |-> 0, arg |-> o, ret |-> NoRef,
                  freed |-> {}]
    /\ UNCHANGED <<object_, memberOf, allocated, deleted, crowd>>

NextWide ==
    \/ \E h \in WideHandles : ~Dangling /\ DefaultConstruct(h)
    \/ \E h \in WideHandles : \E o \in Objects :
          ~Dangling /\ ConstructFromObject(h, o)
    \/ \E h \in WideHandles : \E r \in WideHandles :
          ~Dangling /\ CopyConstruct(h, r)
    \/ \E h \in WideHandles : ~Dangling /\ Destroy(h)
    \/ \E h \in WideHandles : \E r \in WideHandles : ~Dangling /\ Assign(h, r)
    \/ \E h \in WideHandles : ~Dangling /\ Reset(h)
    \/ \E t \in Targets : CrowdConstruct(t)
    \/ \E t \in Targets : CrowdDestroy(t)
    \/ \E o \in Objects : UseAfterFree(o)

SpecWide == InitWide /\ [][NextWide]_vars

\* ================================================================ claims
\* The two states of a live handle.
Void(h) == Live(h) /\ opNot(Mem, h)

Bound(h) == Live(h) /\ opBool(Mem, h)

\* The step left handles, counters, objects and the run untouched.
NothingChanged ==
    /\ object_' = object_
    /\ memberOf' = memberOf
    /\ referenceCount_' = referenceCount_
    /\ deleted' = deleted
    /\ allocated' = allocated
    /\ failure' = failure

\* C1: in every state, the counter of every object that exists equals the
\* number of live handles whose object_ is that object.
C1_CounterEqualsLiveHandles ==
    \A o \in Objects :
        Alive(o) => refCount(Mem, o) = U32(Cardinality(BoundTo(o)))

\* C1 witness: a handle was just destroyed and two others still share an object.
C1_Witness ==
    /\ lastOp.op = "~Ref"
    /\ \E o \in Objects : Alive(o) /\ Cardinality(BoundTo(o)) = 2

\* C2: a step that takes the last live handle away from an object that exists
\* runs "delete this" on it in that step, and "delete this" never runs twice
\* on one object.
C2_DestroyedWithLastHandleOnce ==
    [][ /\ \A o \in Objects :
              (Alive(o) /\ BoundTo(o) # {} /\ BoundTo(o)' = {})
                  => (deleted'[o] = 1 /\ o \in lastOp'.freed)
        /\ \A o \in Objects : deleted'[o] <= 1 ]_vars

\* C2 witness: an assignment took the last handle from an object and freed it.
C2_Witness ==
    /\ lastOp.op = "operator="
    /\ \E o \in Objects : o \in lastOp.freed /\ deleted[o] = 1 /\ BoundTo(o) = {}

\* C3: the target of every live handle is the sentinel or an object that
\* exists (no object is destroyed under a live handle).
C3_NoLiveHandleToDestroyedObject ==
    \A h \in Handles : Bound(h) => Alive(object_[h])

\* C3 witness: the last operation destroyed an object while a handle is bound
\* to another one, which exists.
C3_Witness ==
    /\ lastOp.freed # {}
    /\ \E h \in Handles : Bound(h) /\ Alive(object_[h])

\* C4: self-assignment h = h changes no target and no counter and frees nothing.
C4_SelfAssignmentChangesNothing ==
    [][ (lastOp'.op = "operator=" /\ lastOp'.h = lastOp'.arg)
            => (NothingChanged /\ lastOp'.freed = {}) ]_vars

\* C4 witness: h = h was run on the only handle of an object (counter 1).
C4_Witness ==
    /\ lastOp.op = "operator="
    /\ lastOp.h = lastOp.arg
    /\ Bound(lastOp.h)
    /\ refCount(Mem, object_[lastOp.h]) = U32(1)
    /\ Alive(object_[lastOp.h])

\* C5: A = B (same-type or converting) for two handles that already have the
\* same target changes no target and no counter and frees nothing.
C5_AssignSameTargetChangesNothing ==
    [][ ( /\ lastOp'.op \in {"operator=", "operator=<S>"}
          /\ lastOp'.h # lastOp'.arg
          /\ object_[lastOp'.h] = object_[lastOp'.arg] )
            => (NothingChanged /\ lastOp'.freed = {}) ]_vars

\* C5 witness: A = B was run on two distinct handles bound to one object.
C5_Witness ==
    /\ lastOp.op = "operator="
    /\ lastOp.h # lastOp.arg
    /\ Bound(lastOp.h)
    /\ object_[lastOp.h] = object_[lastOp.arg]
    /\ refCount(Mem, object_[lastOp.h]) = U32(2)

\* C6: the sentinel's counter is never 0, the sentinel is never deleted and no
\* check on it ever fails.
C6_SentinelNeverReleased ==
    /\ refCount(Mem, Sentinel) # Zero
    /\ deleted[Sentinel] = 0
    /\ Sentinel \notin lastOp.freed
    /\ failure # "InvariantViolation"

\* C6 witness: the last Void handle was destroyed and the counter is back at 1.
C6_Witness ==
    /\ lastOp.op = "~Ref"
    /\ lastOp.arg = Sentinel
    /\ refCount(Mem, Sentinel) = U32(1)

\* C7: a handle is Void right after Ref(), and a Void handle and a Bound
\* handle never compare equal: == is false and != is true, in both orders and
\* for the same-type and the converting comparisons.
C7_VoidNeverEqualsBound ==
    /\ lastOp.op = "Ref()" => Void(lastOp.h)
    /\ \A a \in Handles : \A b \in Handles :
          (Void(a) /\ Bound(b)) =>
              /\ ~opEq(Mem, a, b) /\ ~opEq(Mem, b, a)
              /\ ~opEqS(Mem, a, b) /\ ~opEqS(Mem, b, a)
              /\ opNe(Mem, a, b) /\ opNe(Mem, b, a)
              /\ opNeS(Mem, a, b) /\ opNeS(Mem, b, a)

\* C7 witness: a handle was just default-constructed next to a Bound one.
C7_Witness ==
    /\ lastOp.op = "Ref()"
    /\ \E b \in Handles : Bound(b)

C9_ResetIdempotent ==
    [][ /\ (lastOp'.op = "reset" /\ isSentinel(object_[lastOp'.h])) => NothingChanged
        /\ (lastOp.op = "reset" /\ lastOp'.op = "reset" /\ lastOp'.h = lastOp.h)
              => NothingChanged ]_vars

\* C9 witness: reset() ran on a handle that was already Void, with another
\* handle Bound.
C9_Witness ==
    /\ lastOp.op = "reset"
    /\ lastOp.arg = Sentinel
    /\ \E g \in Handles : Bound(g)

\* C10: operator* and operator-> on a Void handle fail with a precondition
\* violation, on a Bound handle they return its target; neither changes a
\* target or a counter or deletes an object.
C10_DereferenceChecked ==
    [][ (lastOp'.op \in {"operator*", "operator->"}) =>
            /\ object_' = object_
            /\ referenceCount_' = referenceCount_
            /\ deleted' = deleted
            /\ lastOp'.freed = {}
            /\ isSentinel(object_[lastOp'.h])
                  => (failure' = "PreconditionViolation" /\ lastOp'.ret = NoRef)
            /\ isNotSentinel(object_[lastOp'.h])
                  => (failure' = "none" /\ lastOp'.ret = object_[lastOp'.h]) ]_vars

\* C10 witness: operator* on a Void handle aborted the program while another
\* handle is Bound.
C10_Witness ==
    /\ lastOp.op = "operator*"
    /\ failure = "PreconditionViolation"
    /\ Void(lastOp.h)
    /\ \E g \in Handles : Bound(g)

\* C11: Ref(Object*) and ref() on a null pointer fail with a precondition
\* violation before any counter is touched and leave no live handle; on an
\* object o they leave the handle bound to o and o's counter raised by one,
\* and nothing else changed.
C11_ConstructFromObject ==
    [][ (lastOp'.op \in {"Ref(Object*)", "ref"}) =>
            LET h == lastOp'.h
                o == lastOp'.arg
            IN  /\ deleted' = deleted
                /\ lastOp'.freed = {}
                /\ \A g \in Handles \ {h} : object_'[g] = object_[g]
                /\ o = NullPtr =>
                      /\ failure' = "PreconditionViolation"
                      /\ referenceCount_' = referenceCount_
                      /\ object_'[h] \notin Targets
                /\ o # NullPtr =>
                      /\ failure' = "none"
                      /\ object_'[h] = o
                      /\ referenceCount_' = [referenceCount_ EXCEPT ![o] = Inc(@)] ]_vars

\* C11 witness: ref() was called with a null pointer and aborted the program
\* while a handle is Bound.
C11_Witness ==
    /\ lastOp.op = "ref"
    /\ lastOp.arg = NullPtr
    /\ failure = "PreconditionViolation"
    /\ \E g \in Handles : Bound(g)

\* C12: free() deletes its object exactly when the counter is 0 and the
\* object is not the sentinel; on a nonzero counter or on the sentinel it
\* fails with a contract violation and deletes nothing.  It changes no
\* counter and no handle.
C12_FreeChecked ==
    [][ (lastOp'.op = "free") =>
            LET t  == lastOp'.arg
                ok == referenceCount_[t] = Zero /\ isNotSentinel(t)
            IN  /\ object_' = object_
                /\ referenceCount_' = referenceCount_
                /\ ok => (failure' = "none" /\ lastOp'.freed = {t}
                             /\ deleted' = [deleted EXCEPT ![t] = 1])
                /\ ~ok => (failure' \in {"PreconditionViolation", "InvariantViolation"}
                             /\ lastOp'.freed = {} /\ deleted' = deleted) ]_vars

\* C12 witness: free() was called on an object a live handle is bound to and
\* aborted the program; the object still exists.
C12_Witness ==
    /\ lastOp.op = "free"
    /\ lastOp.arg \in Objects
    /\ BoundTo(lastOp.arg) # {}
    /\ failure # "none"
    /\ Alive(lastOp.arg)

\* C13: the converting copy constructor and the converting operator= do what
\* the same-type ones do on the source's raw target: afterwards both handles
\* have the source's target (both Void if it was Void), compare equal across
\* types, and a copy-construction raised that target's counter by exactly one,
\* so that the counter of a real target counts both handles.
C13_ConvertingLikeSameType ==
    [][ /\ (lastOp'.op = "Ref(Ref<S>)") =>
              LET h == lastOp'.h
                  r == lastOp'.arg
                  t == _get(Mem, r)
              IN  /\ Mem' = RefCopy(Mem, h, r)
                  /\ object_'[h] = t /\ object_'[r] = t
                  /\ referenceCount_' = [referenceCount_ EXCEPT ![t] = Inc(@)]
                  /\ opEqS(Mem', h, r) /\ opEqS(Mem', r, h)
                  /\ ~opNeS(Mem', h, r)
                  /\ isSentinel(t) => (opNot(Mem', h) /\ opNot(Mem', r))
                  /\ isNotSentinel(t) =>
                        referenceCount_'[t] = U32(Cardinality({g \in Handles : object_'[g] = t}))
        /\ (lastOp'.op = "operator=<S>") =>
              LET h == lastOp'.h
                  r == lastOp'.arg
                  t == _get(Mem, r)
              IN  /\ Mem' = opAssign(Mem, h, r)
                  /\ object_'[h] = t /\ object_'[r] = t
                  /\ opEqS(Mem', h, r) /\ opEqS(Mem', r, h)
                  /\ ~opNeS(Mem', h, r)
                  /\ isSentinel(t) => (opNot(Mem', h) /\ opNot(Mem', r))
                  /\ isNotSentinel(t) =>
                        referenceCount_'[t] = U32(Cardinality({g \in Handles : object_'[g] = t})) ]_vars

\* C13 witness: a converting assignment between two distinct handles released
\* the old target and left both handles Bound to one object.
C13_Witness ==
    /\ lastOp.op = "operator=<S>"
    /\ lastOp.h # lastOp.arg
    /\ lastOp.freed # {}
    /\ Bound(lastOp.h)
    /\ object_[lastOp.h] = object_[lastOp.arg]

\* C14: copying a shareable object copies no ownership: the copy starts with
\* counter 0 whatever the source's counter is, assigning one object to another
\* changes neither counter, and afterwards the counter of each of the two
\* objects still equals the number of live handles bound to it.
C14_ObjectCopyKeepsCounters ==
    [][ (lastOp'.op \in {"T(const T&)", "T::operator="}) =>
            LET src == lastOp'.arg
                dst == lastOp'.ret
            IN  /\ object_' = object_
                /\ deleted' = deleted
                /\ failure' = failure
                /\ referenceCount_'[src] = referenceCount_[src]
                /\ lastOp'.op = "T(const T&)" =>
                      /\ referenceCount_'[dst] = Zero
                      /\ dst \notin allocated /\ dst \in allocated'
                      /\ \A t \in Targets \ {dst} :
                            referenceCount_'[t] = referenceCount_[t]
                /\ lastOp'.op = "T::operator=" =>
                      referenceCount_' = referenceCount_
                /\ \A o \in {src, dst} :
                      referenceCount_'[o] = U32(Cardinality(BoundTo(o))) ]_vars

\* C14 witness: an object with counter 1 was assigned from an object with
\* counter 2.
C14_Witness ==
    /\ lastOp.op = "T::operator="
    /\ refCount(Mem, lastOp.arg) = U32(2)
    /\ refCount(Mem, lastOp.ret) = U32(1)

\* C15: every handle constructed from a raw pointer to an object (by
\* Ref(Object*), by ref(), or from get() of a Bound handle) raises that
\* object's one counter by exactly one and compares equal to every handle
\* already bound to it; the object is deleted in the step that releases the
\* last of these handles, not before, and only once.
C15_HandlesFromRawPointerShare ==
    [][ /\ ( /\ lastOp'.op \in {"Ref(Object*)", "ref", "Ref(get)"}
             /\ lastOp'.arg # NullPtr ) =>
              LET h == lastOp'.h
                  o == lastOp'.arg
              IN  /\ o \in Objects
                  /\ object_'[h] = o
                  /\ referenceCount_'[o] = Inc(referenceCount_[o])
                  /\ referenceCount_'[o] = U32(Cardinality(BoundTo(o)) + 1)
                  /\ \A g \in BoundTo(o) :
                        /\ opEq(Mem', h, g) /\ opEq(Mem', g, h)
                        /\ ~opNe(Mem', h, g)
                  /\ Alive(o) /\ deleted'[o] = 0
        /\ \A o \in Objects :
              /\ (o \in lastOp'.freed) => (BoundTo(o)' = {} /\ deleted'[o] = 1)
              /\ (Alive(o) /\ BoundTo(o) # {} /\ BoundTo(o)' = {})
                    => o \in lastOp'.freed ]_vars

\* C15 witness: a third handle was made from get() of a handle whose object
\* already had two handles.
C15_Witness ==
    /\ lastOp.op = "Ref(get)"
    /\ lastOp.arg \in Objects
    /\ refCount(Mem, lastOp.arg) = U32(3)
    /\ Cardinality(BoundTo(lastOp.arg)) = 3

\* C16: every assignment increments the new target's counter before it
\* decrements the old target's.  The new target (the handle's own target in
\* h = h, otherwise the target of the other handle) has a nonzero counter
\* after every statement of set(), and free() does not run on it.
C16_IncrementBeforeDecrement ==
    [][ (lastOp'.op \in {"operator=", "operator=<S>"}) =>
            LET h   == lastOp'.h
                t   == object_[lastOp'.arg]
                old == object_[h]
                tr  == setSteps(Mem, h, t)
            IN  /\ Mem' = tr[3]
                /\ tr[1].obj[h] = t
                /\ tr[1].rc[t] = Inc(referenceCount_[t])
                /\ old # t => tr[1].rc[old] = referenceCount_[old]
                /\ old # t => tr[2].rc[old] = Dec(referenceCount_[old])
                /\ tr[2].rc[t] = IF old = t THEN referenceCount_[t]
                                            ELSE Inc(referenceCount_[t])
                /\ \A i \in 1..3 : tr[i].rc[t] # Zero /\ tr[i].del[t] = deleted[t]
                /\ t \notin lastOp'.freed
                /\ failure' = "none" ]_vars

\* C16 witness: an assignment freed the old target of its handle and left the
\* new target with both handles.
C16_Witness ==
    /\ lastOp.op = "operator="
    /\ lastOp.h # lastOp.arg
    /\ lastOp.freed # {}
    /\ Bound(lastOp.h)
    /\ refCount(Mem, object_[lastOp.h]) = U32(2)

ReleasingOps == {"~Ref", "operator=", "operator=<S>", "reset"}

\* C19: handle operations alone, on objects that form no reference cycle,
\* never fail a check of free(), set() or ~Ref(): no step ends in an invariant
\* violation, no releasing operation ends in a failure, and every object an
\* operation freed was freed once, with counter 0, and is not the sentinel.
C19_HandleOperationsPassTheChecks ==
    /\ failure # "InvariantViolation"
    /\ lastOp.op \in ReleasingOps => failure = "none"
    /\ \A t \in lastOp.freed :
          /\ isNotSentinel(t)
          /\ referenceCount_[t] = Zero
          /\ deleted[t] = 1

\* C19 witness: the destruction of one handle freed a node and, through the
\* node's member handle, a second object, with no check failing.
C19_Witness ==
    /\ lastOp.op = "~Ref"
    /\ Cardinality(lastOp.freed) = 2
    /\ failure = "none"

HandleCount(t) == Plus(BoundCount(t), IF isSentinel(t) THEN 1 ELSE 0)

\* The object whose counter it is exists.
Counted(t) == isSentinel(t) \/ Alive(t)

\* Fewer than 2^32 handles on each object, fewer than 2^32 - 1 Void handles.
WithinWidth == \A t \in Targets : Less(HandleCount(t), TwoTo32)

CounterModular ==
    Running => \A t \in Targets :
                  Counted(t) => refCount(Mem, t) = Mod32(HandleCount(t))

\* Every counter is the number itself, every deleted object was deleted
\* once and with no handle left on it, and no invariant check has failed.
CounterExact ==
    /\ failure # "InvariantViolation"
    /\ \A t \in Targets :
          /\ Counted(t) => refCount(Mem, t) = HandleCount(t)
          /\ (t \in Objects /\ deleted[t] > 0) =>
                deleted[t] = 1 /\ BoundCount(t) = Zero

\* C20: the counter of an object that exists is always the number of live
\* handles bound to it modulo 2^32 (the sentinel's: one more), and as long as
\* fewer than 2^32 handles are bound to each object and fewer than 2^32 - 1
\* are Void, it is that number itself and no object is deleted while a handle
\* is bound to it.
C20_CounterModuloWidth ==
    /\ CounterModular
    /\ WithinWidth => CounterExact
    /\ [][ /\ CounterModular'
           /\ (CounterExact /\ WithinWidth') => CounterExact' ]_vars

\* C20 witness: the construction of one more handle brought an object to
\* 2^32 handles and wrapped its counter to 0; the object exists.
C20_Witness ==
    /\ lastOp.op = "Ref (counted)"
    /\ Running
    /\ \E o \in Objects :
          /\ Alive(o)
          /\ HandleCount(o) = TwoTo32
          /\ refCount(Mem, o) = Zero

====
